---- MODULE Spec2Model ----
(***************************************************************************)
(* Model of snips-nlu-utils' string module (src/src/string.rs): position   *)
(* conversion between byte space and char space, substring extraction,     *)
(* normalization (trim, diacritic removal, lowercase) and shape            *)
(* classification.                                                         *)
(*                                                                         *)
(* A text is a sequence of Unicode scalar values, each one written as its  *)
(* code point.  A Rust Option<char> is a sequence of length 0 (None) or 1  *)
(* (Some), so that flat_map over it is concatenation.                      *)
(***************************************************************************)
EXTENDS Integers, Sequences, FiniteSets, TLC

\* ------------------------------------------------------------------ bounds
MaxLen == 3
MaxIdx == 6

\* The input alphabet:
\*   32     U+0020 SPACE                          1 byte, whitespace
\*   49     U+0031 DIGIT ONE                      1 byte, uncased
\*   65     U+0041 LATIN CAPITAL LETTER A         1 byte, uppercase
\*   97     U+0061 LATIN SMALL LETTER A           1 byte, lowercase
\*   192    U+00C0 LATIN CAPITAL LETTER A GRAVE   2 bytes, uppercase, = A + U+0300
\*   769    U+0301 COMBINING ACUTE ACCENT         2 bytes, combining mark
\*   50504  U+C548 HANGUL SYLLABLE AN             3 bytes, = U+110B U+1161 U+11AB
\*   128512 U+1F600 GRINNING FACE                 4 bytes, uncased
Chars == {32, 49, 65, 97, 192, 769, 50504, 128512}

Strings == UNION {[1..n -> Chars] : n \in 0..MaxLen}

Indices == 0..MaxIdx

\* ------------------------------------------------- std / unicode primitives
\* char::len_utf8
len_utf8(c) ==
  IF c < 128 THEN 1 ELSE IF c < 2048 THEN 2 ELSE IF c < 65536 THEN 3 ELSE 4

\* char::is_whitespace (the White_Space property), as used by str::trim
is_whitespace(c) ==
  c \in (9..13) \cup {32, 133, 160, 5760, 8232, 8233, 8239, 8287, 12288}
        \cup (8192..8202)

\* char::is_lowercase, on Basic Latin and Latin-1
is_lowercase(c) ==
  c \in (97..122) \cup {170, 181, 186} \cup (223..246) \cup (248..255)

\* char::is_uppercase, on Basic Latin and Latin-1
is_uppercase(c) ==
  c \in (65..90) \cup (192..214) \cup (216..222)

\* char::to_lowercase, on Basic Latin and Latin-1, and U+0130 whose lowercase
\* is the two scalar values U+0069 U+0307
to_lower(c) ==
  IF is_uppercase(c) THEN <<c + 32>>
  ELSE IF c = 304 THEN <<105, 775>>
  ELSE <<c>>

\* unicode_normalization::char::is_combining_mark, on the Combining
\* Diacritical Marks block
is_combining_mark(c) == c \in 768..879

\* unicode_normalization::char::decompose_canonical: the full canonical
\* decomposition.  Hangul syllables are decomposed arithmetically; the
\* Latin-1 letters A/a with grave or acute come from the table.
decompose_canonical(c) ==
  IF c \in 44032..55203
  THEN LET s == c - 44032
           l == 4352 + (s \div 588)
           v == 4449 + ((s % 588) \div 28)
           t == s % 28
       IN IF t = 0 THEN <<l, v>> ELSE <<l, v, 4519 + t>>
  ELSE IF c = 192 THEN <<65, 768>>
  ELSE IF c = 193 THEN <<65, 769>>
  ELSE IF c = 224 THEN <<97, 768>>
  ELSE IF c = 225 THEN <<97, 769>>
  ELSE IF c = 304 THEN <<73, 775>>
  ELSE <<c>>

\* unicode_normalization::char::compose: canonical composition of a pair,
\* None when the pair has no precomposed form.
compose(a, b) ==
  IF a \in 4352..4370 /\ b \in 4449..4469
  THEN <<44032 + (((a - 4352) * 21 + (b - 4449)) * 28)>>
  ELSE IF a \in 44032..55203 /\ (a - 44032) % 28 = 0 /\ b \in 4520..4546
  THEN <<a + (b - 4519)>>
  ELSE IF a = 65 /\ b = 768 THEN <<192>>
  ELSE IF a = 65 /\ b = 769 THEN <<193>>
  ELSE IF a = 97 /\ b = 768 THEN <<224>>
  ELSE IF a = 97 /\ b = 769 THEN <<225>>
  ELSE IF a = 73 /\ b = 775 THEN <<304>>
  ELSE <<>>

\* Iterator::skip and Iterator::take over the chars of a string
skip(s, n) == IF n >= Len(s) THEN <<>> ELSE SubSeq(s, n + 1, Len(s))

take(s, n) == IF n >= Len(s) THEN s ELSE SubSeq(s, 1, n)

\* str::trim: drop leading and trailing whitespace
RECURSIVE trim_start(_)
trim_start(s) ==
  IF s # <<>> /\ is_whitespace(Head(s)) THEN trim_start(Tail(s)) ELSE s

RECURSIVE trim_end(_)
trim_end(s) ==
  IF s # <<>> /\ is_whitespace(s[Len(s)])
  THEN trim_end(SubSeq(s, 1, Len(s) - 1)) ELSE s

\* mutant: trim_start() in place of trim()
trim_leading_only(s) == trim_start(s)

trim(s) == trim_end(trim_start(s))

\* str::to_lowercase: the lowercase mapping of each char, concatenated.  The
\* one context-dependent mapping, of U+03A3, concerns no char modelled here.
RECURSIVE to_lowercase(_)
to_lowercase(s) ==
  IF s = <<>> THEN <<>> ELSE to_lower(Head(s)) \o to_lowercase(Tail(s))

\* ------------------------------------------------------ position conversion
\* mutant: the loop's test written byte_index < acc
RECURSIVE char_index_loop_strict(_, _, _, _)
char_index_loop_strict(string, byte_index, char_index, acc) ==
  IF char_index >= Len(string) THEN Len(string)
  ELSE IF byte_index < acc THEN char_index
  ELSE char_index_loop_strict(string, byte_index, char_index + 1,
                              acc + len_utf8(string[char_index + 1]))

\* convert_to_char_index's loop: char_index is the 0-based enumerate index of
\* the next char, acc the bytes consumed before it.  Falling off the end
\* returns last_char_index + 1, the number of chars.
RECURSIVE char_index_loop(_, _, _, _)
char_index_loop(string, byte_index, char_index, acc) ==
  IF char_index >= Len(string) THEN Len(string)
  ELSE IF byte_index <= acc THEN char_index
  ELSE char_index_loop(string, byte_index, char_index + 1,
                       acc + len_utf8(string[char_index + 1]))

\* mutant: a floor; the index of the char that holds byte_index
RECURSIVE char_index_floor_loop(_, _, _, _)
char_index_floor_loop(string, byte_index, char_index, acc) ==
  IF char_index >= Len(string) THEN Len(string)
  ELSE IF byte_index < acc + len_utf8(string[char_index + 1]) THEN char_index
  ELSE char_index_floor_loop(string, byte_index, char_index + 1,
                             acc + len_utf8(string[char_index + 1]))

convert_to_char_index_floor(string, byte_index) ==
  IF string = <<>> THEN 0 ELSE char_index_floor_loop(string, byte_index, 0, 0)

convert_to_char_index(string, byte_index) ==
  IF string = <<>> THEN 0 ELSE char_index_loop(string, byte_index, 0, 0)

\* mutant: every char counted as one byte
RECURSIVE byte_index_loop_one_byte(_, _, _, _)
byte_index_loop_one_byte(string, char_index, current_char_index, result) ==
  IF current_char_index >= Len(string) THEN result
  ELSE IF current_char_index = char_index THEN result
  ELSE byte_index_loop_one_byte(string, char_index, current_char_index + 1,
                                result + 1)

\* convert_to_byte_index's loop, result being the bytes summed so far
RECURSIVE byte_index_loop(_, _, _, _)
byte_index_loop(string, char_index, current_char_index, result) ==
  IF current_char_index >= Len(string) THEN result
  ELSE IF current_char_index = char_index THEN result
  ELSE byte_index_loop(string, char_index, current_char_index + 1,
                       result + len_utf8(string[current_char_index + 1]))

convert_to_byte_index(string, char_index) ==
  byte_index_loop(string, char_index, 0, 0)

convert_to_char_range(string, start, end) ==
  [start |-> convert_to_char_index(string, start),
   end   |-> convert_to_char_index(string, end)]

convert_to_byte_range(string, start, end) ==
  [start |-> convert_to_byte_index(string, start),
   end   |-> convert_to_byte_index(string, end)]

\* String::len: the length in bytes
byte_len(string) == convert_to_byte_index(string, Len(string))

\* ------------------------------------------------------------- substrings
\* mutant: take(range.end) in place of take(range.end - range.start)
substring_take_end(string, start, end, overflow_checks) ==
  IF end < start /\ overflow_checks
  THEN [panicked |-> TRUE, value |-> <<>>]
  ELSE [panicked |-> FALSE, value |-> take(skip(string, start), end)]

\* range.end - range.start is a usize subtraction.  With end < start it
\* panics when the build has overflow checks (debug), and wraps to
\* 2^64 - (start - end) when it has none (release): a count that exceeds the
\* length of every string, so take() yields everything that skip() left.
substring_with_char_range(string, start, end, overflow_checks) ==
  IF end < start /\ overflow_checks
  THEN [panicked |-> TRUE, value |-> <<>>]
  ELSE LET skipped == skip(string, start)
           count   == IF end >= start THEN end - start ELSE Len(skipped)
       IN [panicked |-> FALSE, value |-> take(skipped, count)]

prefix_until_char_index(string, index, overflow_checks) ==
  substring_with_char_range(string, 0, index, overflow_checks)

\* mutant: the char index turned into a byte index to match the byte length
suffix_from_byte_index(string, index, overflow_checks) ==
  LET length == byte_len(string)
  IN substring_with_char_range(string, convert_to_byte_index(string, index),
                               length, overflow_checks)

suffix_from_char_index(string, index, overflow_checks) ==
  LET length == byte_len(string)
  IN substring_with_char_range(string, index, length, overflow_checks)

\* ---------------------------------------------------------- normalization
\* the closure passed to decompose_canonical: keep what is no combining mark
RECURSIVE filter_marks(_)
filter_marks(d) ==
  IF d = <<>> THEN <<>>
  ELSE (IF is_combining_mark(Head(d)) THEN <<>> ELSE <<Head(d)>>)
       \o filter_marks(Tail(d))

\* the fold of remove_combination_marks: opt_acc.map(|acc| compose(acc, c))
\* .unwrap_or(None) for each c in turn
RECURSIVE fold_compose(_, _)
fold_compose(opt_acc, rest) ==
  IF rest = <<>> THEN opt_acc
  ELSE fold_compose(IF opt_acc = <<>> THEN <<>>
                    ELSE compose(opt_acc[1], Head(rest)),
                    Tail(rest))

\* mutant: the first remaining value returned, the rest never composed
remove_combination_marks_first(character) ==
  take(filter_marks(decompose_canonical(character)), 1)

remove_combination_marks(character) ==
  LET decomposition == filter_marks(decompose_canonical(character))
      first_char    == take(decomposition, 1)
  IN fold_compose(first_char, skip(decomposition, 1))

RECURSIVE remove_diacritics(_)
remove_diacritics(string) ==
  IF string = <<>> THEN <<>>
  ELSE remove_combination_marks(Head(string)) \o remove_diacritics(Tail(string))

normalize(string) == to_lowercase(remove_diacritics(trim(string)))

\* ------------------------------------------------------------------ shape
RECURSIVE all_lowercase(_)
all_lowercase(string) ==
  string = <<>> \/ (is_lowercase(Head(string)) /\ all_lowercase(Tail(string)))

RECURSIVE all_uppercase(_)
all_uppercase(string) ==
  string = <<>> \/ (is_uppercase(Head(string)) /\ all_uppercase(Tail(string)))

\* mutant: every char after the first must be lowercase
RECURSIVE title_case_loop_lower_tail(_, _)
title_case_loop_lower_tail(string, first) ==
  IF string = <<>> THEN ~first
  ELSE IF first /\ is_uppercase(Head(string))
       THEN title_case_loop_lower_tail(Tail(string), FALSE)
  ELSE IF ~first /\ is_lowercase(Head(string))
       THEN title_case_loop_lower_tail(Tail(string), first)
  ELSE FALSE

\* is_title_case's loop over the chars, carrying the flag first
RECURSIVE title_case_loop(_, _)
title_case_loop(string, first) ==
  IF string = <<>> THEN ~first
  ELSE IF first /\ is_uppercase(Head(string))
       THEN title_case_loop(Tail(string), FALSE)
  ELSE IF ~first /\ ~is_uppercase(Head(string))
       THEN title_case_loop(Tail(string), first)
  ELSE FALSE

is_title_case(string) == title_case_loop(string, TRUE)

\* mutant: the lowercase and uppercase tests skip the uncased chars
RECURSIVE no_uppercase(_)
no_uppercase(string) ==
  string = <<>> \/ (~is_uppercase(Head(string)) /\ no_uppercase(Tail(string)))

RECURSIVE no_lowercase(_)
no_lowercase(string) ==
  string = <<>> \/ (~is_lowercase(Head(string)) /\ no_lowercase(Tail(string)))

get_shape_cased_only(string) ==
  IF no_uppercase(string) THEN "xxx"
  ELSE IF no_lowercase(string) THEN "XXX"
  ELSE IF is_title_case(string) THEN "Xxx"
  ELSE "xX"

get_shape(string) ==
  IF all_lowercase(string) THEN "xxx"
  ELSE IF all_uppercase(string) THEN "XXX"
  ELSE IF is_title_case(string) THEN "Xxx"
  ELSE "xX"

\* ------------------------------------------------------------------ state
VARIABLES
  string,      \* the text argument of the latest call
  op,          \* the operation called, "none" before any call
  start,       \* the index argument, or the start of the range argument
  end,         \* the end of the range argument
  calls,       \* how many times normalize was applied in a row
  str_out,     \* a returned String
  idx_out,     \* a returned usize
  range_out,   \* a returned Range<usize>
  shape_out,   \* a returned shape
  panicked     \* the call panicked instead of returning

vars == <<string, op, start, end, calls, str_out, idx_out, range_out,
          shape_out, panicked>>

Init ==
  /\ string \in Strings
  /\ op = "none"
  /\ start = 0
  /\ end = 0
  /\ calls = 0
  /\ str_out = <<>>
  /\ idx_out = 0
  /\ range_out = [start |-> 0, end |-> 0]
  /\ shape_out = ""
  /\ panicked = FALSE

ConvertToCharIndex ==
  /\ op = "none"
  /\ \E byte_index \in Indices :
       /\ start' = byte_index
       /\ idx_out' = convert_to_char_index(string, byte_index)
  /\ op' = "convert_to_char_index"
  /\ UNCHANGED <<string, end, calls, str_out, range_out, shape_out, panicked>>

ConvertToByteIndex ==
  /\ op = "none"
  /\ \E char_index \in Indices :
       /\ start' = char_index
       /\ idx_out' = convert_to_byte_index(string, char_index)
  /\ op' = "convert_to_byte_index"
  /\ UNCHANGED <<string, end, calls, str_out, range_out, shape_out, panicked>>

ConvertToCharRange ==
  /\ op = "none"
  /\ \E s \in Indices, e \in Indices :
       /\ start' = s
       /\ end' = e
       /\ range_out' = convert_to_char_range(string, s, e)
  /\ op' = "convert_to_char_range"
  /\ UNCHANGED <<string, calls, str_out, idx_out, shape_out, panicked>>

ConvertToByteRange ==
  /\ op = "none"
  /\ \E s \in Indices, e \in Indices :
       /\ start' = s
       /\ end' = e
       /\ range_out' = convert_to_byte_range(string, s, e)
  /\ op' = "convert_to_byte_range"
  /\ UNCHANGED <<string, calls, str_out, idx_out, shape_out, panicked>>

SubstringWithCharRange ==
  /\ op = "none"
  /\ \E s \in Indices, e \in Indices, overflow_checks \in BOOLEAN :
       LET r == substring_with_char_range(string, s, e, overflow_checks)
       IN /\ start' = s
          /\ end' = e
          /\ str_out' = r.value
          /\ panicked' = r.panicked
  /\ op' = "substring_with_char_range"
  /\ UNCHANGED <<string, calls, idx_out, range_out, shape_out>>

PrefixUntilCharIndex ==
  /\ op = "none"
  /\ \E index \in Indices, overflow_checks \in BOOLEAN :
       LET r == prefix_until_char_index(string, index, overflow_checks)
       IN /\ start' = index
          /\ str_out' = r.value
          /\ panicked' = r.panicked
  /\ op' = "prefix_until_char_index"
  /\ UNCHANGED <<string, end, calls, idx_out, range_out, shape_out>>

SuffixFromCharIndex ==
  /\ op = "none"
  /\ \E index \in Indices, overflow_checks \in BOOLEAN :
       LET r == suffix_from_char_index(string, index, overflow_checks)
       IN /\ start' = index
          /\ str_out' = r.value
          /\ panicked' = r.panicked
  /\ op' = "suffix_from_char_index"
  /\ UNCHANGED <<string, end, calls, idx_out, range_out, shape_out>>

\* normalize, applied to the input text or, a second time, to its own output
Normalize ==
  /\ \/ /\ op = "none"
        /\ string' = string
     \/ /\ op = "normalize"
        /\ calls = 1
        /\ string' = str_out
  /\ str_out' = normalize(string')
  /\ calls' = calls + 1
  /\ op' = "normalize"
  /\ UNCHANGED <<start, end, idx_out, range_out, shape_out, panicked>>

RemoveDiacritics ==
  /\ op = "none"
  /\ str_out' = remove_diacritics(string)
  /\ op' = "remove_diacritics"
  /\ UNCHANGED <<string, start, end, calls, idx_out, range_out, shape_out,
                 panicked>>

GetShape ==
  /\ op = "none"
  /\ shape_out' = get_shape(string)
  /\ op' = "get_shape"
  /\ UNCHANGED <<string, start, end, calls, str_out, idx_out, range_out,
                 panicked>>

Next ==
  \/ ConvertToCharIndex
  \/ ConvertToByteIndex
  \/ ConvertToCharRange
  \/ ConvertToByteRange
  \/ SubstringWithCharRange
  \/ PrefixUntilCharIndex
  \/ SuffixFromCharIndex
  \/ Normalize
  \/ RemoveDiacritics
  \/ GetShape

Spec == Init /\ [][Next]_vars

\* ----------------------------------------------------- reference notions
Min(x, y) == IF x <= y THEN x ELSE y

\* the byte offset at which the char at 0-based position i starts; for
\* i = Len(s) the total byte length
RECURSIVE StartOffset(_, _)
StartOffset(s, i) ==
  IF i = 0 THEN 0 ELSE StartOffset(s, i - 1) + len_utf8(s[i])

TotalBytes(s) == StartOffset(s, Len(s))

IsCharStart(s, b) == \E i \in 0..Len(s) : StartOffset(s, i) = b

\* the chars of s at the 0-based positions a, a+1, ..., m-1
CharsAt(s, a, m) == [k \in 1..(IF m > a THEN m - a ELSE 0) |-> s[a + k]]

\* s without its leading and trailing whitespace
Stripped(s) ==
  LET keep == {i \in 1..Len(s) : ~is_whitespace(s[i])}
  IN IF keep = {} THEN <<>>
     ELSE LET lo == CHOOSE i \in keep : \A j \in keep : i <= j
              hi == CHOOSE i \in keep : \A j \in keep : j <= i
          IN SubSeq(s, lo, hi)

HasMultiByte(s) == \E i \in 1..Len(s) : len_utf8(s[i]) > 1

\* ------------------------------------------------------------------ C1
\* C1 (as stated): normalize is idempotent; applied to its own output it
\* returns that output unchanged, for every text.
C1_Idempotent ==
  (op = "normalize" /\ calls = 2) => str_out = string

\* C1 (amended): normalize applied to its own output returns that output
\* with its leading and trailing whitespace removed; it is unchanged exactly
\* when the first output neither starts nor ends with whitespace.
C1_IdempotentUpToTrim ==
  (op = "normalize" /\ calls = 2) =>
    /\ str_out = Stripped(string)
    /\ (str_out = string <=>
          (string = <<>> \/ (~is_whitespace(string[1])
                             /\ ~is_whitespace(string[Len(string)]))))

C1_Witness ==
  /\ op = "normalize"
  /\ calls = 2
  /\ string # <<>>
  /\ is_whitespace(string[1])
  /\ str_out # <<>>
  /\ str_out # string

\* ------------------------------------------------------------------ C2
\* C2: the position-conversion and substring operations are total; whatever
\* the index or range, the call returns and never fails.
C2_NeverFails ==
  (op \in {"convert_to_char_index", "convert_to_byte_index",
           "convert_to_char_range", "convert_to_byte_range",
           "substring_with_char_range", "prefix_until_char_index",
           "suffix_from_char_index"}) => ~panicked

\* ------------------------------------------------------------------ C3
\* C3: convert_to_char_index is a ceiling; it returns the smallest char index
\* in 0..=length whose char starts at a byte offset >= byte_index, the char
\* length once byte_index reaches the total byte length, and 0 for the empty
\* text.
C3_CharIndexIsCeiling ==
  (op = "convert_to_char_index") =>
    LET n == Len(string)
        b == start
    IN /\ idx_out \in 0..n
       /\ (b >= TotalBytes(string) => idx_out = n)
       /\ (b <= TotalBytes(string) =>
             /\ StartOffset(string, idx_out) >= b
             /\ \A j \in 0..(idx_out - 1) : StartOffset(string, j) < b)
       /\ (string = <<>> => idx_out = 0)

C3_Witness ==
  /\ op = "convert_to_char_index"
  /\ start < TotalBytes(string)
  /\ ~IsCharStart(string, start)
  /\ idx_out \in 1..(Len(string) - 1)

\* ------------------------------------------------------------------ C4
\* C4: convert_to_byte_index is exact and strictly increasing on
\* 0..=length; it is the sum of the byte lengths of the first char_index
\* chars, and the total byte length for every char_index >= length.
C4_ByteIndexExact ==
  (op = "convert_to_byte_index") =>
    LET n == Len(string)
        i == start
    IN /\ idx_out = StartOffset(string, Min(i, n))
       /\ (i >= n => idx_out = TotalBytes(string))
       /\ (i < n => idx_out < convert_to_byte_index(string, i + 1))

C4_Witness ==
  /\ op = "convert_to_byte_index"
  /\ start \in 1..(Len(string) - 1)
  /\ idx_out > start

\* ------------------------------------------------------------------ C5
\* C5: byte -> char -> byte round trip; for a byte index within the text the
\* round trip returns it unchanged when it is the start of a char or the
\* total byte length, and a greater value when it falls inside a char.
C5_RoundTrip ==
  (op = "convert_to_char_index" /\ start <= TotalBytes(string)) =>
    LET back == convert_to_byte_index(string, idx_out)
    IN /\ back >= start
       /\ (IsCharStart(string, start) => back = start)
       /\ (~IsCharStart(string, start) => back > start)

C5_Witness ==
  /\ op = "convert_to_char_index"
  /\ start < TotalBytes(string)
  /\ ~IsCharStart(string, start)
  /\ convert_to_byte_index(string, idx_out) > start
  /\ convert_to_byte_index(string, idx_out) < TotalBytes(string)

\* ------------------------------------------------------------------ C6
IsCased(c) == is_lowercase(c) \/ is_uppercase(c)

\* C6 (as stated): get_shape returns "xxx" for every string whose cased
\* chars are all lowercase, a string with no cased char included.
C6_CasedAllLowerIsXxx ==
  (op = "get_shape"
   /\ \A i \in 1..Len(string) : IsCased(string[i]) => is_lowercase(string[i]))
    => shape_out = "xxx"

\* C6 (amended): get_shape returns "xxx" exactly for the strings all of whose
\* chars are lowercase, the empty string included; one char that is not
\* lowercase, an uncased one included, rules "xxx" out.
C6_AllLowerIsXxx ==
  (op = "get_shape") =>
    (shape_out = "xxx" <=> \A i \in 1..Len(string) : is_lowercase(string[i]))

C6_Witness ==
  /\ op = "get_shape"
  /\ Len(string) >= 2
  /\ \A i \in 1..Len(string) : is_lowercase(string[i])
  /\ shape_out = "xxx"

\* ------------------------------------------------------------------ C7
\* C7 (as stated): "Xxx" only for a string whose first char is uppercase and
\* whose every later char is lowercase; a string that starts with an
\* uppercase char and later holds an uncased char gets "xX".
C7_TitleNeedsLowerTail ==
  (op = "get_shape") =>
    /\ (shape_out = "Xxx" =>
          /\ string # <<>>
          /\ is_uppercase(string[1])
          /\ \A i \in 2..Len(string) : is_lowercase(string[i]))
    /\ ((/\ string # <<>>
         /\ is_uppercase(string[1])
         /\ \E i \in 2..Len(string) : ~IsCased(string[i]))
          => shape_out = "xX")

\* C7 (amended): the title-case test accepts exactly the strings whose first
\* char is uppercase and whose later chars are not uppercase (lowercase or
\* uncased); get_shape returns "Xxx" exactly for such strings of two or more
\* chars.
C7_TitleNeedsNonUpperTail ==
  (op = "get_shape") =>
    LET form == /\ string # <<>>
                /\ is_uppercase(string[1])
                /\ \A i \in 2..Len(string) : ~is_uppercase(string[i])
    IN /\ (is_title_case(string) <=> form)
       /\ (shape_out = "Xxx" <=> (form /\ Len(string) >= 2))

C7_Witness ==
  /\ op = "get_shape"
  /\ shape_out = "Xxx"
  /\ \E i \in 2..Len(string) : ~IsCased(string[i])

\* ------------------------------------------------------------------ C8
\* C8: substring_with_char_range(t, a..b) with a <= b returns the chars of t
\* at positions a .. min(b, length) - 1 in order; prefix_until_char_index
\* returns the first min(i, length) chars.
C8_SubstringIsCharSlice ==
  /\ (op = "substring_with_char_range" /\ start <= end) =>
       /\ ~panicked
       /\ str_out = CharsAt(string, start, Min(end, Len(string)))
  /\ (op = "prefix_until_char_index") =>
       /\ ~panicked
       /\ str_out = CharsAt(string, 0, Min(start, Len(string)))

C8_Witness ==
  /\ op = "substring_with_char_range"
  /\ 0 < start
  /\ start < end
  /\ end < Len(string)
  /\ HasMultiByte(string)
  /\ Len(str_out) = end - start

\* ------------------------------------------------------------------ C9
\* C9: suffix_from_char_index(t, i) with i <= length returns the chars of t
\* from position i to the end, and the prefix until i followed by the suffix
\* from i is t.
C9_SuffixIsCharSlice ==
  (op = "suffix_from_char_index" /\ start <= Len(string)) =>
    /\ ~panicked
    /\ str_out = CharsAt(string, start, Len(string))
    /\ prefix_until_char_index(string, start, TRUE).value \o str_out = string

C9_Witness ==
  /\ op = "suffix_from_char_index"
  /\ 0 < start
  /\ start < Len(string)
  /\ TotalBytes(string) > Len(string)
  /\ str_out # <<>>

\* ------------------------------------------------------------------ C10
\* what remains of a char's canonical decomposition without combining marks
Remaining(c) ==
  SelectSeq(decompose_canonical(c), LAMBDA x : ~is_combining_mark(x))

\* the first k remaining values composed left to right; <<>> once a step
\* has failed
RECURSIVE ComposedPrefix(_, _)
ComposedPrefix(f, k) ==
  IF k = 1 THEN <<f[1]>>
  ELSE LET p == ComposedPrefix(f, k - 1)
       IN IF p = <<>> THEN <<>> ELSE compose(p[1], f[k])

Contribution(c) ==
  IF Remaining(c) = <<>> THEN <<>>
  ELSE ComposedPrefix(Remaining(c), Len(Remaining(c)))

RECURSIVE Contributions(_, _)
Contributions(s, n) ==
  IF n = 0 THEN <<>> ELSE Contributions(s, n - 1) \o Contribution(s[n])

\* C10: remove_diacritics yields, in the original order, zero or one value
\* per char: nothing when no value remains once the combining marks are
\* filtered out or when a composition step fails, the single remaining
\* value, or the left-to-right composition of the remaining values; the
\* output is never longer than the input.
C10_PerCharContribution ==
  (op = "remove_diacritics") =>
    /\ str_out = Contributions(string, Len(string))
    /\ \A i \in 1..Len(string) :
         /\ Len(Contribution(string[i])) <= 1
         /\ (Len(Remaining(string[i])) = 1
               => Contribution(string[i]) = Remaining(string[i]))
    /\ Len(str_out) <= Len(string)

C10_Witness ==
  /\ op = "remove_diacritics"
  /\ \E i \in 1..Len(string) : Remaining(string[i]) = <<>>
  /\ \E i \in 1..Len(string) :
       /\ Len(Remaining(string[i])) = 3
       /\ Contribution(string[i]) = <<string[i]>>
  /\ Len(str_out) = Len(string) - 1

====
